---- MODULE Spec2Model ----
(***************************************************************************)
(* Remote page fault handler (rpfh) of the RISC-V machine emulation:       *)
(* hw/riscv/rpfh.c, final revision (the one with the three tail queues     *)
(* headff, headef, headnf and the FREEPAGE/EVICTPAGE/NEWFRAME registers).  *)
(*                                                                         *)
(* A 64-bit machine word (uint64_t, target_ulong, hwaddr, uintptr_t) is    *)
(* the set of the positions of its 1 bits, so that the masks and shifts of *)
(* the code are computed at full width: AND is intersection, OR is union,  *)
(* a shift moves the positions.  The word 0 is the empty set.              *)
(***************************************************************************)
EXTENDS Integers, Sequences, FiniteSets, TLC

(***************************************************************************)
(* Bounds of the model.                                                    *)
(***************************************************************************)
\* cells of a page image (the code copies 4096 bytes; every copy and the
\* memset cover the whole page, so a page is PageCells cells)
PageCells == 2
\* most fetches completed in one run (bounds headnf and the histories); frames
\* are donated as long as one of these fetches is left to take them
MaxFetches == 2

(***************************************************************************)
(* Machine words.                                                          *)
(***************************************************************************)
WORD_BITS == 64
Bit == 0..(WORD_BITS - 1)
Word == SUBSET Bit
Zero == {}

And(a, b) == a \cap b
Or(a, b) == a \cup b
Not(a) == Bit \ a
Shr(a, n) == {b - n : b \in {x \in a : x >= n}}
Shl(a, n) == {b + n : b \in {x \in a : x + n < WORD_BITS}}

\* the word holding the number n (n < 2^31): used for the count a read returns
RECURSIVE BitsOf(_, _)
BitsOf(n, pos) == IF n = 0 THEN {}
                  ELSE (IF n % 2 = 1 THEN {pos} ELSE {}) \cup BitsOf(n \div 2, pos + 1)
ToWord(n) == BitsOf(n, 0)

(***************************************************************************)
(* Constants of the code.                                                  *)
(***************************************************************************)
PFA_INT_BASE == 0
PFA_INT_FREEPAGE == PFA_INT_BASE
PFA_INT_EVICTPAGE == PFA_INT_BASE + 8
PFA_INT_NEWFRAME == PFA_INT_BASE + 16

PGSHIFT == 12
PTE_PPN_SHIFT == 10
\* 0xFFFFFFFFFC00, the mask of the comparison in rpfh_fetch_page
KEY_MASK == 10..47
\* 0xFF, the bits of the evicted pte that rpfh_fetch_page carries over
PTE_BITS_MASK == 0..7
\* 0x7FFFFFFF, the mask of gpaddr_to_hostaddr
DRAM_MASK == 0..30
\* The remote flag.  target-riscv/cpu.h sets its position; the design
\* document places it among the bits the comparison key keeps (the key is
\* "sensitive to the remote marker") and above the bits pte_frame shifts
\* out, and clear of the page number of every frame of guest DRAM.
PTE_REMOTE == {47}

(***************************************************************************)
(* Guest physical memory.  Guest DRAM is mapped at 0x80000000; the host    *)
(* pointer of a guest address is the DRAM base plus the low 31 bits.       *)
(***************************************************************************)
gpaddr_to_hostaddr(gpaddr) == And(gpaddr, DRAM_MASK)

\* frames of guest DRAM: 0x80000000 (host offset 0), 0x80001000, 0x80002000
F0 == {31}
F1 == {31, 12}
F2 == {31, 13}
Frames == {F0, F1, F2}
\* guest addresses of the page table entries the guest names in its writes
G1 == {31, 20}
G2 == {31, 20, 3}
PteAddrs == {G1, G2}

\* a page image: PageCells cells
ZeroPage == [i \in 1..PageCells |-> 0]
memcpy(dst, src, n) == [i \in DOMAIN dst |-> IF i <= n THEN src[i] ELSE dst[i]]
memset(dst, c, n) == [i \in DOMAIN dst |-> IF i <= n THEN c ELSE dst[i]]

\* the pte word that names frame f with status bits low
MkPte(f, low) == Or(Shl(Shr(f, PGSHIFT), PTE_PPN_SHIFT), low)

(***************************************************************************)
(* State.                                                                  *)
(***************************************************************************)
VARIABLES
    headff,     \* free-frame pool: sequence of struct freeframe
    headef,     \* evicted-page store: sequence of struct evictedframe
    headnf,     \* notification queue: sequence of struct newframe
    dram_pte,   \* guest DRAM, the page table words: host offset -> word
    dram_page,  \* guest DRAM, the page frames: host offset -> page image
    running,    \* FALSE once an assert of rpfh_fetch_page has failed
    last,       \* the call made last: its arguments and what it returned
    fetched,    \* history: the pte of every fetch completed, in order
    delivered,  \* history: the value of every NEWFRAME read that took an entry
    donated,    \* history: the frame of every FREEPAGE write, in order
    returned,   \* history: *paddr_res of every fetch completed, in order
    evictions,  \* history: the number of EVICTPAGE writes for a resident pte
    key_a,      \* key comparison on its own: the faulting pte
    key_b,      \* key comparison on its own: the pte of an evicted entry
    key_eq,     \* key comparison on its own: "none", then "equal" or "differ"
    pc,         \* interleaved fetches: where each context is in rpfh_fetch_page
    loc,        \* interleaved fetches: the local variables of each context
    serialized, \* interleaved fetches: TRUE when a call runs to its end alone
    ffid,       \* interleaved fetches: the identity of each element of headff
    efid        \* interleaved fetches: the identity of each element of headef

vars == <<headff, headef, headnf, dram_pte, dram_page, running, last,
          fetched, delivered, donated, returned, evictions,
          key_a, key_b, key_eq, pc, loc, serialized, ffid, efid>>
\* the variables of the key comparison made on its own
keyvars == <<key_a, key_b, key_eq>>
\* the variables of the fetches that run interleaved
racevars == <<pc, loc, serialized, ffid, efid>>
\* the state of the device and of guest memory
devstate == <<headff, headef, headnf, dram_pte, dram_page>>

(***************************************************************************)
(* The tail queues of qemu/queue.h, as sequences: the head is element 1.   *)
(***************************************************************************)
QTAILQ_EMPTY(head) == head = <<>>
QTAILQ_FIRST(head) == head[1]
QTAILQ_INSERT_TAIL(head, elm) == Append(head, elm)
\* QTAILQ_REMOVE of the element at position i
QTAILQ_REMOVE(head, i) == [j \in 1..(Len(head) - 1) |-> IF j < i THEN head[j] ELSE head[j + 1]]

(***************************************************************************)
(* The pte codec.                                                          *)
(***************************************************************************)
\* pte_frame of the earlier revision: (*pte >> 10) << 12, the flag not masked
pte_frame_old(pte) == Shl(Shr(pte, PTE_PPN_SHIFT), 12)

\* the physical address of the page frame pointed to by pte
pte_frame(pte) == Shl(Shr(And(pte, Not(PTE_REMOTE)), PTE_PPN_SHIFT), 12)
\* key_pte with only the ten low bits cleared
key_pte_low(pte) == And(pte, Not(0..9))

\* the comparison key of rpfh_fetch_page: pte & 0xFFFFFFFFFC00
key_pte(pte) == And(pte, KEY_MASK)

(***************************************************************************)
(* Initial state: rpfh_init_mmio has run, the three queues are empty.  The *)
(* guest has a page table of two entries and three frames with distinct    *)
(* contents.  The first entry is an all-zero word, or maps frame F1 with   *)
(* status bits 0x105 (bit 8 is one of the two bits the privileged          *)
(* architecture reserves for software); the second maps frame F2 with      *)
(* status bits 0x0F.                                                       *)
(***************************************************************************)
NoCall == [op |-> "init", addr |-> 0, value |-> Zero, outcome |-> "none",
           ret |-> Zero, paddr |-> Zero, pte_in |-> Zero]

InitPtes == { [g \in {gpaddr_to_hostaddr(G1), gpaddr_to_hostaddr(G2)} |->
                 IF g = gpaddr_to_hostaddr(G1) THEN p1 ELSE MkPte(F2, {0, 1, 2, 3})]
              : p1 \in {Zero, MkPte(F1, {0, 2, 8})} }

InitPages == [f \in {gpaddr_to_hostaddr(x) : x \in Frames} |->
                 [i \in 1..PageCells |->
                     IF f = gpaddr_to_hostaddr(F0) THEN 1
                     ELSE IF f = gpaddr_to_hostaddr(F1) THEN 2 ELSE 3]]

DeviceInit ==
    /\ headff = <<>>
    /\ headef = <<>>
    /\ headnf = <<>>
    /\ dram_pte \in InitPtes
    /\ dram_page = InitPages
    /\ running = TRUE
    /\ last = NoCall
    /\ fetched = <<>>
    /\ delivered = <<>>
    /\ donated = <<>>
    /\ returned = <<>>
    /\ evictions = 0

\* the two guest contexts that may be inside rpfh_fetch_page
Ctx == {1, 2}
\* the locals of rpfh_fetch_page before the call: ff and ef are identities of
\* queue elements (0: none), gptr and efrec what the elements hold
NoLocals == [g |-> Zero, pte |-> Zero, ff |-> 0, gptr |-> Zero, ef |-> 0,
             efrec |-> [pte |-> Zero, data |-> ZeroPage], new_pte |-> Zero]
\* no context is inside rpfh_fetch_page
RaceIdle ==
    /\ pc = [c \in Ctx |-> "idle"]
    /\ loc = [c \in Ctx |-> NoLocals]
    /\ ffid = <<>>
    /\ efid = <<>>

Init ==
    /\ DeviceInit
    /\ key_a = Zero /\ key_b = Zero /\ key_eq = "none"
    /\ RaceIdle /\ serialized = TRUE

(***************************************************************************)
(* The controller.                                                         *)
(***************************************************************************)
\* rpfh_freepage that skips a frame the pool already holds
rpfh_freepage_dedup(pte_gpaddr) ==
    LET pte == dram_pte[gpaddr_to_hostaddr(pte_gpaddr)]
        ff == [gptr |-> pte_frame(pte)]
    IN  /\ headff' = IF \E i \in 1..Len(headff) : headff[i] = ff
                     THEN headff ELSE QTAILQ_INSERT_TAIL(headff, ff)
        /\ UNCHANGED <<headef, headnf, dram_pte, dram_page>>

\* rpfh_freepage: the frame of the pte at pte_gpaddr joins the pool
rpfh_freepage(pte_gpaddr) ==
    LET pte == dram_pte[gpaddr_to_hostaddr(pte_gpaddr)]
        frame_gpaddr == pte_frame(pte)
        ff == [gptr |-> frame_gpaddr]
    IN  /\ headff' = QTAILQ_INSERT_TAIL(headff, ff)
        /\ UNCHANGED <<headef, headnf, dram_pte, dram_page>>

\* rpfh_evict_page without the test of the remote flag
rpfh_evict_page_unchecked(pte_gpaddr) ==
    LET at == gpaddr_to_hostaddr(pte_gpaddr)
        pte == dram_pte[at]
        new == Or(pte, PTE_REMOTE)
        frame_addr == gpaddr_to_hostaddr(pte_frame(pte))
        ef == [data |-> memcpy(ZeroPage, dram_page[frame_addr], PageCells),
               pte |-> new]
    IN  /\ dram_pte' = [dram_pte EXCEPT ![at] = new]
        /\ dram_page' = [dram_page EXCEPT ![frame_addr] = memset(@, 0, PageCells)]
        /\ headef' = QTAILQ_INSERT_TAIL(headef, ef)
        /\ UNCHANGED <<headff, headnf>>

\* rpfh_evict_page that stores the pte as read, before the flag is set
rpfh_evict_page_stale(pte_gpaddr) ==
    LET at == gpaddr_to_hostaddr(pte_gpaddr)
        pte == dram_pte[at]
        frame_addr == gpaddr_to_hostaddr(pte_frame(pte))
        ef == [data |-> memcpy(ZeroPage, dram_page[frame_addr], PageCells),
               pte |-> pte]
    IN  IF And(pte, PTE_REMOTE) # Zero
        THEN UNCHANGED <<headff, headef, headnf, dram_pte, dram_page>>
        ELSE /\ dram_pte' = [dram_pte EXCEPT ![at] = Or(pte, PTE_REMOTE)]
             /\ dram_page' = [dram_page EXCEPT ![frame_addr] = memset(@, 0, PageCells)]
             /\ headef' = QTAILQ_INSERT_TAIL(headef, ef)
             /\ UNCHANGED <<headff, headnf>>

\* rpfh_evict_page of the earlier revision: the frame keeps its contents
rpfh_evict_page_nozero(pte_gpaddr) ==
    LET at == gpaddr_to_hostaddr(pte_gpaddr)
        pte == dram_pte[at]
        frame_addr == gpaddr_to_hostaddr(pte_frame(pte))
        ef == [data |-> memcpy(ZeroPage, dram_page[frame_addr], PageCells),
               pte |-> Or(pte, PTE_REMOTE)]
    IN  IF And(pte, PTE_REMOTE) # Zero
        THEN UNCHANGED <<headff, headef, headnf, dram_pte, dram_page>>
        ELSE /\ dram_pte' = [dram_pte EXCEPT ![at] = Or(pte, PTE_REMOTE)]
             /\ headef' = QTAILQ_INSERT_TAIL(headef, ef)
             /\ UNCHANGED <<headff, headnf, dram_page>>

\* rpfh_evict_page: the page of the pte at pte_gpaddr moves to the store
rpfh_evict_page(pte_gpaddr) ==
    LET at == gpaddr_to_hostaddr(pte_gpaddr)
        pte == dram_pte[at]
    IN  IF And(pte, PTE_REMOTE) # Zero
        THEN \* "This pte is already remote"
             UNCHANGED <<headff, headef, headnf, dram_pte, dram_page>>
        ELSE LET frame_gpaddr == pte_frame(pte)
                 new == Or(pte, PTE_REMOTE)
                 frame_addr == gpaddr_to_hostaddr(frame_gpaddr)
                 ef == [data |-> memcpy(ZeroPage, dram_page[frame_addr], PageCells),
                        pte |-> new]
             IN  /\ dram_pte' = [dram_pte EXCEPT ![at] = new]
                 /\ dram_page' = [dram_page EXCEPT
                                     ![frame_addr] = memset(@, 0, PageCells)]
                 /\ headef' = QTAILQ_INSERT_TAIL(headef, ef)
                 /\ UNCHANGED <<headff, headnf>>

\* the scan that ends on the first entry when no key is equal
FindEvicted_first(key) ==
    LET hits == {i \in 1..Len(headef) : key = And(headef[i].pte, KEY_MASK)}
    IN  IF hits = {} THEN (IF headef = <<>> THEN 0 ELSE 1)
        ELSE CHOOSE i \in hits : \A j \in hits : i <= j

\* the scan that goes on to the last entry whose key is key
FindEvicted_last(key) ==
    LET hits == {i \in 1..Len(headef) : key = And(headef[i].pte, KEY_MASK)}
    IN  IF hits = {} THEN 0 ELSE CHOOSE i \in hits : \A j \in hits : i >= j

\* position in headef of the first entry whose key is key, 0 if there is none
\* (the QTAILQ_FOREACH loop of rpfh_fetch_page)
FindEvicted(key) ==
    LET hits == {i \in 1..Len(headef) : key = And(headef[i].pte, KEY_MASK)}
    IN  IF hits = {} THEN 0 ELSE CHOOSE i \in hits : \A j \in hits : i <= j

\* new_pte without the status bits of the evicted pte
NewPte_nobits(paddr, evicted) == Shl(Shr(paddr, PGSHIFT), PTE_PPN_SHIFT)

\* new_pte with the two shift amounts exchanged
NewPte_swapshift(paddr, evicted) ==
    Or(Shl(Shr(paddr, PTE_PPN_SHIFT), PGSHIFT), And(evicted, PTE_BITS_MASK))

\* new_pte that takes over all ten bits below the page number
NewPte_lowten(paddr, evicted) ==
    Or(Shl(Shr(paddr, PGSHIFT), PTE_PPN_SHIFT), And(evicted, 0..9))

\* the pte rpfh_fetch_page composes for the frame at paddr from the evicted pte
NewPte(paddr, evicted) ==
    Or(Shl(Shr(paddr, PGSHIFT), PTE_PPN_SHIFT), And(evicted, PTE_BITS_MASK))

\* the call record of rpfh_fetch_page.  pte_gpaddr is the guest address the
\* caller loaded the pte from; the function does not see it, the record does.
FetchCall(pte_gpaddr, pte) ==
    [op |-> "fetch", addr |-> 0, value |-> pte_gpaddr, pte_in |-> pte,
     outcome |-> "ok", ret |-> Zero, paddr |-> Zero]

\* an assert of rpfh_fetch_page fails with the pool as it is by then: the
\* process ends
fetch_abort(call, why, pool) ==
    /\ running' = FALSE
    /\ last' = [call EXCEPT !.outcome = why]
    /\ headff' = pool
    /\ UNCHANGED <<headef, headnf, dram_page, fetched>>

\* fetch_fulfil that inserts the notification at the head of headnf
fetch_fulfil_head(call, ff, pool, found) ==
    LET ef == headef[found]
        new_pte == NewPte(ff.gptr, ef.pte)
    IN  /\ headff' = pool
        /\ headef' = QTAILQ_REMOVE(headef, found)
        /\ dram_page' = [dram_page EXCEPT
                            ![gpaddr_to_hostaddr(ff.gptr)] = memcpy(@, ef.data, PageCells)]
        /\ headnf' = <<[pte |-> new_pte]>> \o headnf
        /\ fetched' = Append(fetched, new_pte)
        /\ last' = [call EXCEPT !.ret = new_pte, !.paddr = ff.gptr]
        /\ UNCHANGED running

\* fetch_fulfil that leaves the entry it has used in headef
fetch_fulfil_keep(call, ff, pool, found) ==
    LET ef == headef[found]
        new_pte == NewPte(ff.gptr, ef.pte)
    IN  /\ headff' = pool
        /\ dram_page' = [dram_page EXCEPT
                            ![gpaddr_to_hostaddr(ff.gptr)] = memcpy(@, ef.data, PageCells)]
        /\ headnf' = QTAILQ_INSERT_TAIL(headnf, [pte |-> new_pte])
        /\ fetched' = Append(fetched, new_pte)
        /\ last' = [call EXCEPT !.ret = new_pte, !.paddr = ff.gptr]
        /\ UNCHANGED <<running, headef>>

\* rpfh_fetch_page after both asserts: ff is the frame taken from the pool,
\* pool what is left of it, found the position of the matching entry
fetch_fulfil(call, ff, pool, found) ==
    LET ef == headef[found]
        frame_addr == gpaddr_to_hostaddr(ff.gptr)
        paddr_res == ff.gptr
        new_pte == NewPte(paddr_res, ef.pte)
        nf == [pte |-> new_pte]
    IN  /\ headff' = pool
        /\ headef' = QTAILQ_REMOVE(headef, found)
        /\ dram_page' = [dram_page EXCEPT
                            ![frame_addr] = memcpy(@, ef.data, PageCells)]
        /\ headnf' = QTAILQ_INSERT_TAIL(headnf, nf)
        /\ fetched' = Append(fetched, new_pte)
        /\ last' = [call EXCEPT !.ret = new_pte, !.paddr = paddr_res]
        /\ UNCHANGED running

\* rpfh_fetch_page that looks for the evicted entry, and unlinks it, before
\* it looks at the pool
rpfh_fetch_page_scanfirst(pte_gpaddr, pte) ==
    LET call == FetchCall(pte_gpaddr, pte)
        found == FindEvicted(key_pte(pte))
    IN  IF found = 0
        THEN fetch_abort(call, "abort_nomatch", headff)
        ELSE IF QTAILQ_EMPTY(headff)
             THEN /\ running' = FALSE
                  /\ last' = [call EXCEPT !.outcome = "abort_nofree"]
                  /\ headef' = QTAILQ_REMOVE(headef, found)
                  /\ UNCHANGED <<headff, headnf, dram_page, fetched>>
             ELSE fetch_fulfil(call, QTAILQ_FIRST(headff),
                               QTAILQ_REMOVE(headff, 1), found)

\* rpfh_fetch_page that takes the frame donated last
rpfh_fetch_page_lifo(pte_gpaddr, pte) ==
    LET call == FetchCall(pte_gpaddr, pte)
        found == FindEvicted(key_pte(pte))
    IN  IF QTAILQ_EMPTY(headff)
        THEN fetch_abort(call, "abort_nofree", headff)
        ELSE IF found = 0
             THEN fetch_abort(call, "abort_nomatch", QTAILQ_REMOVE(headff, Len(headff)))
             ELSE fetch_fulfil(call, headff[Len(headff)],
                               QTAILQ_REMOVE(headff, Len(headff)), found)

\* rpfh_fetch_page, called with *pte = pte
rpfh_fetch_page(pte_gpaddr, pte) ==
    LET call == FetchCall(pte_gpaddr, pte)
    IN
    IF QTAILQ_EMPTY(headff)
    THEN \* assert(!QTAILQ_EMPTY(&headff)) fails
         fetch_abort(call, "abort_nofree", headff)
    ELSE
    LET ff == QTAILQ_FIRST(headff)
        pool == QTAILQ_REMOVE(headff, 1)
        found == FindEvicted(key_pte(pte))
    IN  IF found = 0
        THEN \* assert(found) fails
             fetch_abort(call, "abort_nomatch", pool)
        ELSE fetch_fulfil(call, ff, pool, found)

(***************************************************************************)
(* The register interface.                                                 *)
(***************************************************************************)
\* rpfh_queues_write of the earlier revision: exit(1) on a nonzero write to
\* an offset that is no register
rpfh_queues_write_strict(mmioaddr, value) ==
    /\ running
    /\ IF mmioaddr = PFA_INT_FREEPAGE /\ value # Zero
       THEN /\ Len(headff) + Len(fetched) < MaxFetches
            /\ rpfh_freepage(value)
            /\ UNCHANGED running
       ELSE IF mmioaddr = PFA_INT_EVICTPAGE /\ value # Zero
            THEN rpfh_evict_page(value) /\ UNCHANGED running
            ELSE IF value = Zero
                 THEN UNCHANGED <<devstate, running>>
                 ELSE running' = FALSE /\ UNCHANGED devstate
    /\ last' = [op |-> "write", addr |-> mmioaddr, value |-> value, pte_in |-> Zero,
                outcome |-> "ok", ret |-> Zero, paddr |-> Zero]
    /\ donated' = IF mmioaddr = PFA_INT_FREEPAGE /\ value # Zero
                  THEN Append(donated, pte_frame(dram_pte[gpaddr_to_hostaddr(value)]))
                  ELSE donated
    /\ evictions' = IF /\ mmioaddr = PFA_INT_EVICTPAGE /\ value # Zero
                       /\ And(dram_pte[gpaddr_to_hostaddr(value)], PTE_REMOTE) = Zero
                    THEN evictions + 1 ELSE evictions
    /\ UNCHANGED <<fetched, delivered, returned, keyvars>>

rpfh_queues_write(mmioaddr, value) ==
    /\ running
    /\ IF value = Zero
       THEN \* "wrote 0 to pfa mmio region"
            UNCHANGED devstate
       ELSE IF mmioaddr = PFA_INT_FREEPAGE
            THEN Len(headff) + Len(fetched) < MaxFetches /\ rpfh_freepage(value)
            ELSE IF mmioaddr = PFA_INT_EVICTPAGE
                 THEN rpfh_evict_page(value)
                 ELSE \* "wrote to an invalid pfa register"
                      UNCHANGED devstate
    /\ last' = [op |-> "write", addr |-> mmioaddr, value |-> value, pte_in |-> Zero,
                outcome |-> "ok", ret |-> Zero, paddr |-> Zero]
    /\ donated' = IF mmioaddr = PFA_INT_FREEPAGE /\ value # Zero
                  THEN Append(donated, pte_frame(dram_pte[gpaddr_to_hostaddr(value)]))
                  ELSE donated
    /\ evictions' = IF /\ mmioaddr = PFA_INT_EVICTPAGE /\ value # Zero
                       /\ And(dram_pte[gpaddr_to_hostaddr(value)], PTE_REMOTE) = Zero
                    THEN evictions + 1 ELSE evictions
    /\ UNCHANGED <<running, fetched, delivered, returned, keyvars>>

\* rpfh_queues_read of the earlier revision: a read of FREEPAGE returns 0
rpfh_queues_read_old(addr) ==
    LET call == [op |-> "read", addr |-> addr, value |-> Zero, pte_in |-> Zero,
                 outcome |-> "ok", ret |-> Zero, paddr |-> Zero]
    IN
    /\ running
    /\ IF addr \in {PFA_INT_FREEPAGE, PFA_INT_EVICTPAGE}
       THEN /\ last' = call
            /\ UNCHANGED <<devstate, delivered>>
       ELSE IF addr = PFA_INT_NEWFRAME
       THEN IF QTAILQ_EMPTY(headnf)
            THEN /\ last' = [call EXCEPT !.outcome = "empty"]
                 /\ UNCHANGED <<devstate, delivered>>
            ELSE /\ headnf' = QTAILQ_REMOVE(headnf, 1)
                 /\ last' = [call EXCEPT !.ret = QTAILQ_FIRST(headnf).pte]
                 /\ delivered' = Append(delivered, QTAILQ_FIRST(headnf).pte)
                 /\ UNCHANGED <<headff, headef, dram_pte, dram_page>>
       ELSE /\ last' = [call EXCEPT !.outcome = "invalid"]
            /\ UNCHANGED <<devstate, delivered>>
    /\ UNCHANGED <<running, fetched, donated, returned, evictions, keyvars>>

rpfh_queues_read(addr) ==
    LET call == [op |-> "read", addr |-> addr, value |-> Zero, pte_in |-> Zero,
                 outcome |-> "ok", ret |-> Zero, paddr |-> Zero]
    IN
    /\ running
    /\ IF addr = PFA_INT_FREEPAGE
       THEN /\ last' = [call EXCEPT !.ret = ToWord(Len(headff))]
            /\ UNCHANGED <<devstate, delivered>>
       ELSE IF addr = PFA_INT_EVICTPAGE
       THEN /\ last' = call
            /\ UNCHANGED <<devstate, delivered>>
       ELSE IF addr = PFA_INT_NEWFRAME
       THEN IF QTAILQ_EMPTY(headnf)
            THEN /\ last' = [call EXCEPT !.outcome = "empty"]
                 /\ UNCHANGED <<devstate, delivered>>
            ELSE LET nf == QTAILQ_FIRST(headnf)
                     ptenf == nf.pte
                 IN  /\ headnf' = QTAILQ_REMOVE(headnf, 1)
                     /\ last' = [call EXCEPT !.ret = ptenf]
                     /\ delivered' = Append(delivered, ptenf)
                     /\ UNCHANGED <<headff, headef, dram_pte, dram_page>>
       ELSE \* "read from invalid pfa register": count is still 0
            /\ last' = [call EXCEPT !.outcome = "invalid"]
            /\ UNCHANGED <<devstate, delivered>>
    /\ UNCHANGED <<running, fetched, donated, returned, evictions, keyvars>>

(***************************************************************************)
(* The page fault path of the guest (target-riscv): it loads the pte of    *)
(* the faulting address, calls rpfh_fetch_page on its copy, and stores the *)
(* pte it gets back.  Hardware may have set status bits in the copy, so    *)
(* its low ten bits are the stored ones or any of LowBitsIn.               *)
(* rpfh_fetch_page does not test the remote flag of the pte it is given,   *)
(* so the call is made for a resident pte as well.                         *)
(***************************************************************************)
LowBitsIn == {{0, 6, 7}}

remote_fault(pte_gpaddr, low) ==
    LET at == gpaddr_to_hostaddr(pte_gpaddr)
        pte == Or(And(dram_pte[at], Not(0..9)), low)
    IN  /\ running
        /\ Len(fetched) < MaxFetches
        /\ rpfh_fetch_page(pte_gpaddr, pte)
        /\ dram_pte' = IF last'.outcome = "ok"
                       THEN [dram_pte EXCEPT ![at] = last'.ret]
                       ELSE dram_pte
        /\ returned' = IF last'.outcome = "ok"
                       THEN Append(returned, last'.paddr)
                       ELSE returned
        /\ UNCHANGED <<delivered, donated, evictions, keyvars>>

\* register offsets the guest uses: the three registers and one past them
Offsets == {PFA_INT_FREEPAGE, PFA_INT_EVICTPAGE, PFA_INT_NEWFRAME, PFA_INT_BASE + 24}
\* values the guest writes: 0 and the addresses of its page table entries
Values == {Zero} \cup PteAddrs
\* the writes of the guest: every value to FREEPAGE and EVICTPAGE, 0 and one
\* address to the other offsets
Writes == ({PFA_INT_FREEPAGE, PFA_INT_EVICTPAGE} \X Values)
             \cup ((Offsets \ {PFA_INT_FREEPAGE, PFA_INT_EVICTPAGE}) \X {Zero, G1})

Next ==
    \/ \E w \in Writes : rpfh_queues_write(w[1], w[2]) /\ UNCHANGED racevars
    \/ \E addr \in Offsets : rpfh_queues_read(addr) /\ UNCHANGED racevars
    \/ \E g \in PteAddrs :
          \E low \in LowBitsIn \cup {And(dram_pte[gpaddr_to_hostaddr(g)], 0..9)} :
             remote_fault(g, low) /\ UNCHANGED racevars

Spec == Init /\ [][Next]_vars

(***************************************************************************)
(* The key comparison of rpfh_fetch_page on its own: the faulting pte and  *)
(* the pte of an evicted entry are drawn from the variants of one pte in   *)
(* which any of the bits KeyToggles is inverted, and the test of the scan  *)
(* is applied to them.                                                     *)
(***************************************************************************)
\* a status bit, the lowest and the highest bit of the mask, the two bits
\* next to them, and the top bit of the word
KeyToggles == {3, 9, 10, 47, 48, 63}
KeyInputs == {(MkPte(F1, {0, 1}) \ t) \cup (t \ MkPte(F1, {0, 1})) : t \in SUBSET KeyToggles}

KeyInit ==
    /\ DeviceInit
    /\ key_a \in KeyInputs /\ key_b \in KeyInputs /\ key_eq = "none"
    /\ RaceIdle /\ serialized = TRUE

\* key_pte == (ef->pte & 0xFFFFFFFFFC00), for *pte = key_a and ef->pte = key_b
key_compare ==
    /\ key_eq = "none"
    /\ key_eq' = IF key_pte(key_a) = And(key_b, KEY_MASK) THEN "equal" ELSE "differ"
    /\ UNCHANGED <<devstate, running, last, fetched, delivered, donated,
                   returned, evictions, key_a, key_b, racevars>>

KeyNext == key_compare

KeySpec == KeyInit /\ [][KeyNext]_vars

(***************************************************************************)
(* rpfh_fetch_page statement by statement, entered by two guest contexts.  *)
(* A context holds pointers to queue elements; an element is identified by *)
(* the number of the donation or eviction that allocated it.  When         *)
(* serialized is TRUE a context takes a step only while no other context   *)
(* is inside the function; when it is FALSE the steps interleave freely.   *)
(* The guest fills the pool and the store with register writes before the  *)
(* first fetch is entered.                                                 *)
(***************************************************************************)
\* the nonzero writes to the two registers that fill the pool and the store
RaceWrites == {PFA_INT_FREEPAGE, PFA_INT_EVICTPAGE} \X PteAddrs

RaceInit ==
    /\ DeviceInit
    /\ key_a = Zero /\ key_b = Zero /\ key_eq = "none"
    /\ RaceIdle /\ serialized \in BOOLEAN

\* position of the element with identity id in the identities ids, 0 if the
\* element is linked no more
Linked(ids, id) ==
    IF \E i \in 1..Len(ids) : ids[i] = id
    THEN CHOOSE i \in 1..Len(ids) : ids[i] = id ELSE 0

\* context c may take a step of rpfh_fetch_page
MayStep(c) ==
    /\ running
    /\ serialized => \A d \in Ctx \ {c} : pc[d] \in {"idle", "done"}

\* what no step of rpfh_fetch_page writes
fetch_frame == <<last, delivered, donated, evictions, keyvars, serialized>>

\* a register write made while no context is inside rpfh_fetch_page; the
\* element it allocates gets the number of the donation or eviction
race_write(mmioaddr, value) ==
    /\ \A c \in Ctx : pc[c] = "idle"
    /\ mmioaddr = PFA_INT_FREEPAGE => Len(headff) < Cardinality(Ctx)
    /\ rpfh_queues_write(mmioaddr, value)
    /\ ffid' = IF Len(headff') > Len(headff)
               THEN QTAILQ_INSERT_TAIL(ffid, Len(donated')) ELSE ffid
    /\ efid' = IF Len(headef') > Len(headef)
               THEN QTAILQ_INSERT_TAIL(efid, evictions') ELSE efid
    /\ UNCHANGED <<pc, loc, serialized>>

\* assert(!QTAILQ_EMPTY(&headff)); ff = QTAILQ_FIRST(&headff), on entry for
\* the pte at pte_gpaddr
fetch_first(c, pte_gpaddr) ==
    /\ MayStep(c) /\ pc[c] = "idle"
    /\ IF QTAILQ_EMPTY(headff)
       THEN /\ running' = FALSE
            /\ pc' = [pc EXCEPT ![c] = "failed"]
            /\ UNCHANGED loc
       ELSE /\ pc' = [pc EXCEPT ![c] = "unlink_ff"]
            /\ loc' = [loc EXCEPT ![c] =
                          [NoLocals EXCEPT !.g = pte_gpaddr,
                                           !.pte = dram_pte[gpaddr_to_hostaddr(pte_gpaddr)],
                                           !.ff = QTAILQ_FIRST(ffid),
                                           !.gptr = QTAILQ_FIRST(headff).gptr]]
            /\ UNCHANGED running
    /\ UNCHANGED <<devstate, fetched, returned, ffid, efid, fetch_frame>>

\* the statement QTAILQ_REMOVE(&headff, ff, link) left out
fetch_unlink_ff_none(c) ==
    /\ MayStep(c) /\ pc[c] = "unlink_ff"
    /\ pc' = [pc EXCEPT ![c] = "scan"]
    /\ UNCHANGED <<devstate, running, loc, fetched, returned, ffid, efid, fetch_frame>>

\* QTAILQ_REMOVE(&headff, ff, link): unlinking an element that another
\* context has unlinked stores the same links again
fetch_unlink_ff(c) ==
    LET i == Linked(ffid, loc[c].ff)
    IN  /\ MayStep(c) /\ pc[c] = "unlink_ff"
        /\ headff' = IF i = 0 THEN headff ELSE QTAILQ_REMOVE(headff, i)
        /\ ffid' = IF i = 0 THEN ffid ELSE QTAILQ_REMOVE(ffid, i)
        /\ pc' = [pc EXCEPT ![c] = "scan"]
        /\ UNCHANGED <<headef, headnf, dram_pte, dram_page, running, loc,
                       fetched, returned, efid, fetch_frame>>

\* key_pte = *pte & 0xFFFFFFFFFC00; the QTAILQ_FOREACH scan; assert(found)
fetch_scan(c) ==
    LET found == FindEvicted(key_pte(loc[c].pte))
    IN  /\ MayStep(c) /\ pc[c] = "scan"
        /\ IF found = 0
           THEN /\ running' = FALSE
                /\ pc' = [pc EXCEPT ![c] = "failed"]
                /\ UNCHANGED loc
           ELSE /\ pc' = [pc EXCEPT ![c] = "unlink_ef"]
                /\ loc' = [loc EXCEPT ![c].ef = efid[found],
                                      ![c].efrec = headef[found]]
                /\ UNCHANGED running
        /\ UNCHANGED <<devstate, fetched, returned, ffid, efid, fetch_frame>>

\* QTAILQ_REMOVE(&headef, ef, link)
fetch_unlink_ef(c) ==
    LET i == Linked(efid, loc[c].ef)
    IN  /\ MayStep(c) /\ pc[c] = "unlink_ef"
        /\ headef' = IF i = 0 THEN headef ELSE QTAILQ_REMOVE(headef, i)
        /\ efid' = IF i = 0 THEN efid ELSE QTAILQ_REMOVE(efid, i)
        /\ pc' = [pc EXCEPT ![c] = "copy"]
        /\ UNCHANGED <<headff, headnf, dram_pte, dram_page, running, loc,
                       fetched, returned, ffid, fetch_frame>>

\* memcpy(frame_addr, ef->data, 4096); *paddr_res = ff->gptr; *pte = new_pte
fetch_copy(c) ==
    LET frame_addr == gpaddr_to_hostaddr(loc[c].gptr)
        new_pte == NewPte(loc[c].gptr, loc[c].efrec.pte)
    IN  /\ MayStep(c) /\ pc[c] = "copy"
        /\ dram_page' = [dram_page EXCEPT
                            ![frame_addr] = memcpy(@, loc[c].efrec.data, PageCells)]
        /\ dram_pte' = [dram_pte EXCEPT ![gpaddr_to_hostaddr(loc[c].g)] = new_pte]
        /\ loc' = [loc EXCEPT ![c].new_pte = new_pte]
        /\ pc' = [pc EXCEPT ![c] = "push"]
        /\ UNCHANGED <<headff, headef, headnf, running, fetched, returned,
                       ffid, efid, fetch_frame>>

\* QTAILQ_INSERT_TAIL(&headnf, nf, link); g_free of ef and ff; return
fetch_push(c) ==
    /\ MayStep(c) /\ pc[c] = "push"
    /\ headnf' = QTAILQ_INSERT_TAIL(headnf, [pte |-> loc[c].new_pte])
    /\ fetched' = Append(fetched, loc[c].new_pte)
    /\ returned' = Append(returned, loc[c].gptr)
    /\ pc' = [pc EXCEPT ![c] = "done"]
    /\ UNCHANGED <<headff, headef, dram_pte, dram_page, running, loc,
                   ffid, efid, fetch_frame>>

\* a context about to use, or to free, an element that another context has
\* freed at its return: the behaviour is undefined; besides going on with
\* what the element held, the process may end
fetch_use_after_free(c) ==
    /\ MayStep(c)
    /\ \E d \in Ctx \ {c} :
          /\ pc[d] = "done"
          /\ \/ pc[c] \in {"unlink_ff", "copy", "push"} /\ loc[d].ff = loc[c].ff
             \/ pc[c] \in {"unlink_ef", "copy", "push"} /\ loc[d].ef = loc[c].ef
    /\ running' = FALSE
    /\ pc' = [pc EXCEPT ![c] = "failed"]
    /\ UNCHANGED <<devstate, loc, fetched, returned, ffid, efid, fetch_frame>>

RaceNext ==
    \/ \E w \in RaceWrites : race_write(w[1], w[2])
    \/ \E c \in Ctx : \E g \in PteAddrs : fetch_first(c, g)
    \/ \E c \in Ctx : fetch_unlink_ff(c)
    \/ \E c \in Ctx : fetch_scan(c)
    \/ \E c \in Ctx : fetch_unlink_ef(c)
    \/ \E c \in Ctx : fetch_copy(c)
    \/ \E c \in Ctx : fetch_push(c)
    \/ \E c \in Ctx : fetch_use_after_free(c)

RaceSpec == RaceInit /\ [][RaceNext]_vars

(***************************************************************************)
(* Properties.                                                             *)
(***************************************************************************)
\* the step is a call of rpfh_fetch_page that returned
FetchDone == last'.op = "fetch" /\ last'.outcome = "ok"
\* the step is a write of a nonzero value to register reg
WriteTo(reg) == last'.op = "write" /\ last'.addr = reg /\ last'.value # Zero
IsRemote(pte) == And(pte, PTE_REMOTE) # Zero

\* C1 (round trip): whenever a fetch for a page returns, the image saved by
\* the eviction of that page (the entry holding the pte that eviction left in
\* the page table, whose match key is the faulting one) is exactly the image
\* the fetch has copied into the frame it took from the pool.
C1_RoundTrip ==
    [][FetchDone =>
          \A i \in 1..Len(headef) :
             headef[i].pte = dram_pte[gpaddr_to_hostaddr(last'.value)]
                => dram_page'[gpaddr_to_hostaddr(last'.paddr)] = headef[i].data]_vars

\* C2 (frame conservation): a nonzero write to FREEPAGE grows the pool by
\* exactly one entry, a fetch that returns shrinks it by exactly one, and
\* every other write and every read leaves it as it is; its size is never
\* negative.
C2_FrameConservation ==
    [][/\ WriteTo(PFA_INT_FREEPAGE) => Len(headff') = Len(headff) + 1
       /\ FetchDone => Len(headff') = Len(headff) - 1
       /\ (last'.op = "write" /\ ~WriteTo(PFA_INT_FREEPAGE)) => headff' = headff
       /\ last'.op = "read" => headff' = headff
       /\ Len(headff') >= 0]_vars
\* a fetch has returned and left one of two donated frames in the pool
C2_Witness ==
    /\ last.op = "fetch" /\ last.outcome = "ok"
    /\ Len(headff) = 1

\* C3 (permission preservation): the bits below the PPN field (bits 0..9, the
\* bits the match key masks off) of the pte a fetch produces are those of the
\* pte stored by the matching eviction.
C3_PermissionBits ==
    [][FetchDone =>
          And(last'.ret, 0..(PTE_PPN_SHIFT - 1))
             = And(headef[FindEvicted(key_pte(last'.pte_in))].pte,
                   0..(PTE_PPN_SHIFT - 1))]_vars

\* C4 (idempotent eviction): after a nonzero write to EVICTPAGE the pte it
\* names has the remote flag; on a pte that is already remote the write
\* changes neither the store, the stored images and ptes, nor guest memory; on
\* a resident pte it adds exactly one entry.  So the second of two successive
\* evictions of one pte changes nothing and the two add one entry.
C4_IdempotentEvict ==
    [][WriteTo(PFA_INT_EVICTPAGE) =>
          LET at == gpaddr_to_hostaddr(last'.value)
          IN  /\ IsRemote(dram_pte'[at])
              /\ IsRemote(dram_pte[at]) => UNCHANGED devstate
              /\ ~IsRemote(dram_pte[at]) => Len(headef') = Len(headef) + 1
              /\ (last.op = "write" /\ last.addr = PFA_INT_EVICTPAGE
                    /\ last.value = last'.value) => UNCHANGED devstate]_vars
\* an eviction of a pte has been called and the store holds its one entry
C4_Witness ==
    /\ last.op = "write" /\ last.addr = PFA_INT_EVICTPAGE /\ last.value = G1
    /\ IsRemote(dram_pte[gpaddr_to_hostaddr(G1)])
    /\ Len(headef) = 1
    /\ headef[1].pte = dram_pte[gpaddr_to_hostaddr(G1)]

\* the ptes of the entries of a notification queue, head first
Ptes(q) == [i \in 1..Len(q) |-> q[i].pte]
NonZero(seq) == SelectSeq(seq, LAMBDA x : x # Zero)
\* the step is a read of register reg
ReadOf(reg) == last'.op = "read" /\ last'.addr = reg
\* no entry of the store has the match key of pte
NoMatch(pte) == \A i \in 1..Len(headef) : key_pte(headef[i].pte) # key_pte(pte)

\* C5 (notification FIFO), as stated: the nonzero values the NEWFRAME reads
\* have returned, followed by the ptes still queued, are the ptes the fetches
\* have produced, in the order of the fetches.
C5_NotificationFifo == NonZero(delivered) \o Ptes(headnf) = fetched
\* C5, amended: the values returned by the NEWFRAME reads made on a non-empty
\* queue, followed by the ptes still queued, are the ptes the fetches have
\* produced, in order; such a read returns the head of the queue, and a read
\* on the empty queue returns 0 and takes nothing.
C5_FifoAmended ==
    [][/\ delivered' \o Ptes(headnf') = fetched'
       /\ ReadOf(PFA_INT_NEWFRAME) =>
             IF headnf = <<>>
             THEN last'.ret = Zero /\ headnf' = <<>> /\ delivered' = delivered
             ELSE /\ last'.ret = headnf[1].pte
                  /\ delivered' = Append(delivered, last'.ret)]_vars
\* two fetches have completed, the guest has read both ptes in their order
\* and a further read has returned 0
C5_Witness ==
    /\ Len(fetched) = 2 /\ fetched[1] # fetched[2]
    /\ delivered = fetched
    /\ headnf = <<>>
    /\ last.op = "read" /\ last.addr = PFA_INT_NEWFRAME /\ last.ret = Zero

\* C6 (residency): a guest pte has the remote flag if and only if the store
\* holds an entry whose pte has the same match key.
C6_Residency ==
    \A at \in DOMAIN dram_pte :
       IsRemote(dram_pte[at])
          <=> \E i \in 1..Len(headef) : key_pte(headef[i].pte) = key_pte(dram_pte[at])
\* a fetch has returned and installed its pte while another pte is remote
C6_Witness ==
    /\ last.op = "fetch" /\ last.outcome = "ok"
    /\ ~IsRemote(dram_pte[gpaddr_to_hostaddr(last.value)])
    /\ \E at \in DOMAIN dram_pte : IsRemote(dram_pte[at])

\* C7 (fetch on an empty pool): the call ends the process at the first
\* assert: no address is returned, no pte written, and the store, the queue
\* and guest memory are as before.
C7_EmptyPoolFatal ==
    [][(last'.op = "fetch" /\ headff = <<>>) =>
          /\ ~running'
          /\ last'.outcome = "abort_nofree"
          /\ last'.paddr = Zero /\ last'.ret = Zero
          /\ UNCHANGED devstate]_vars
\* the process has ended on the empty pool although an entry matched
C7_Witness ==
    /\ ~running /\ last.outcome = "abort_nofree"
    /\ headff = <<>>
    /\ ~NoMatch(last.pte_in)

\* C8 (fetch without a matching entry): with a frame in the pool and no entry
\* of the faulting key in the store the call ends the process: no image is
\* copied, no pte written, nothing queued and no entry removed.
C8_NoMatchFatal ==
    [][(last'.op = "fetch" /\ headff # <<>> /\ NoMatch(last'.pte_in)) =>
          /\ ~running'
          /\ last'.outcome = "abort_nomatch"
          /\ UNCHANGED <<headef, headnf, dram_pte, dram_page>>]_vars
\* the process has ended for want of a match while the store held entries
C8_Witness ==
    /\ ~running /\ last.outcome = "abort_nomatch"
    /\ headef # <<>>
    /\ NoMatch(last.pte_in)

\* C9 (tolerated anomalies): a write of 0 to any offset, a nonzero write to
\* an offset other than FREEPAGE and EVICTPAGE, and a read of an offset other
\* than the three registers leave the pool, the store, the queue and guest
\* memory as they are and the process running; such a read returns 0.
C9_Tolerated ==
    [][(\/ last'.op = "write" /\ last'.value = Zero
        \/ last'.op = "write" /\ last'.addr \notin {PFA_INT_FREEPAGE, PFA_INT_EVICTPAGE}
        \/ last'.op = "read" /\ last'.addr \notin {PFA_INT_FREEPAGE, PFA_INT_EVICTPAGE,
                                                   PFA_INT_NEWFRAME}) =>
          /\ UNCHANGED devstate
          /\ running'
          /\ last'.op = "read" => last'.ret = Zero]_vars
\* a nonzero write to NEWFRAME has been made with frames donated and a page
\* evicted
C9_Witness ==
    /\ last.op = "write" /\ last.addr = PFA_INT_NEWFRAME /\ last.value # Zero
    /\ running
    /\ headff # <<>> /\ headef # <<>>

\* C10 (zero sentinel), as stated: no entry of the notification queue is 0.
C10_ZeroSentinel == \A i \in 1..Len(headnf) : headnf[i].pte # Zero
\* C10, amended: a NEWFRAME read on the empty queue returns 0 and a read on
\* a non-empty queue returns its head; the pte a fetch produces is 0 exactly
\* when the frame taken from the pool has page number 0 and the evicted pte
\* has none of its low 8 bits set.
C10_SentinelAmended ==
    [][/\ FetchDone =>
             (last'.ret = Zero
                <=> /\ Shr(last'.paddr, PGSHIFT) = Zero
                    /\ And(headef[FindEvicted(key_pte(last'.pte_in))].pte,
                           PTE_BITS_MASK) = Zero)
       /\ ReadOf(PFA_INT_NEWFRAME) =>
             last'.ret = (IF headnf = <<>> THEN Zero ELSE headnf[1].pte)]_vars
\* a fetch has queued a nonzero pte and a read has returned it
C10_Witness ==
    /\ last.op = "read" /\ last.addr = PFA_INT_NEWFRAME /\ last.ret # Zero
    /\ fetched # <<>> /\ delivered = fetched

\* the number a word stands for (words below 2^8 are all a count needs)
WordValue(w) ==
    LET RECURSIVE Sum(_)
        Sum(S) == IF S = {} THEN 0
                  ELSE LET b == CHOOSE x \in S : TRUE IN 2^b + Sum(S \ {b})
    IN  Sum(w)

\* C11 (reads): a read of FREEPAGE returns the number of frames in the pool and
\* a read of EVICTPAGE returns 0, and neither changes the pool, the store, the
\* queue or guest memory; a read changes the device only when it is a read of
\* NEWFRAME with the queue non-empty, and then it removes the head of the
\* queue and nothing else.
C11_ReadsPure ==
    [][last'.op = "read" =>
          /\ last'.addr = PFA_INT_FREEPAGE =>
                WordValue(last'.ret) = Len(headff) /\ UNCHANGED devstate
          /\ last'.addr = PFA_INT_EVICTPAGE =>
                last'.ret = Zero /\ UNCHANGED devstate
          /\ IF last'.addr = PFA_INT_NEWFRAME /\ headnf # <<>>
             THEN /\ headnf' = Tail(headnf)
                  /\ UNCHANGED <<headff, headef, dram_pte, dram_page>>
             ELSE UNCHANGED devstate]_vars
\* a read of FREEPAGE has returned 2 with two frames in the pool and an
\* entry in the store
C11_Witness ==
    /\ last.op = "read" /\ last.addr = PFA_INT_FREEPAGE
    /\ WordValue(last.ret) = 2 /\ Len(headff) = 2 /\ headef # <<>>

\* C12 (pool order): the frames returned by the fetches that completed, in
\* the order of the fetches, are the first frames donated by FREEPAGE writes,
\* in the order of the donations: the i-th fetch gets the i-th donation.
C12_PoolFifo ==
    /\ Len(returned) <= Len(donated)
    /\ \A i \in 1..Len(returned) : returned[i] = donated[i]
\* two fetches have completed, with the two different frames donated
C12_Witness ==
    /\ Len(returned) = 2 /\ returned[1] # returned[2]
    /\ returned = donated

\* C13 (eviction): after an EVICTPAGE write for a pte without the remote
\* flag, the pte at that address is the old one with the remote flag added
\* and no other bit changed; the store has gained one entry, at its tail,
\* holding that new pte and the contents the frame had before the call; the
\* frame is all zero; the pool and the notification queue are as before.
C13_EvictEffect ==
    [][WriteTo(PFA_INT_EVICTPAGE) =>
          LET at == gpaddr_to_hostaddr(last'.value)
              old == dram_pte[at]
              frame == gpaddr_to_hostaddr(pte_frame(old))
          IN  ~IsRemote(old) =>
                 /\ dram_pte'[at] = old \cup PTE_REMOTE
                 /\ dram_pte'[at] \ old = PTE_REMOTE
                 /\ Len(headef') = Len(headef) + 1
                 /\ SubSeq(headef', 1, Len(headef)) = headef
                 /\ headef'[Len(headef')].pte = dram_pte'[at]
                 /\ headef'[Len(headef')].data = dram_page[frame]
                 /\ \A i \in 1..PageCells : dram_page'[frame][i] = 0
                 /\ UNCHANGED <<headff, headnf>>]_vars
\* an EVICTPAGE write for a resident pte has happened with the store, the
\* pool and the queue all non-empty, and the frame held something
C13_Witness ==
    /\ last.op = "write" /\ last.addr = PFA_INT_EVICTPAGE /\ last.value # Zero
    /\ Len(headef) = 2 /\ headff # <<>> /\ headnf # <<>>
    /\ IsRemote(dram_pte[gpaddr_to_hostaddr(last.value)])
    /\ \E i \in 1..PageCells : headef[2].data[i] # 0

\* C14 (fetch output): when a fetch completes, the pte it writes back has the
\* remote flag clear and its frame is the physical address the fetch returns,
\* which is the frame that was at the head of the pool; the entry the fetch
\* appends to the notification queue holds that same pte.
C14_FetchOutput ==
    [][FetchDone =>
          /\ ~IsRemote(last'.ret)
          /\ pte_frame(last'.ret) = last'.paddr
          /\ last'.paddr = headff[1].gptr
          /\ headnf' = Append(headnf, [pte |-> last'.ret])]_vars
\* a fetch has completed for a frame other than frame 0, with an older
\* notification still in the queue
C14_Witness ==
    /\ last.op = "fetch" /\ last.outcome = "ok"
    /\ last.paddr = F2 /\ last.ret # Zero
    /\ Len(headnf) = 2 /\ headnf[2].pte = last.ret

\* C17 (one entry per fetch): a fetch that completes removes from the store
\* exactly one entry, the oldest of those whose match key is the key of the
\* faulting pte; every other entry stays, with its pte and its image, in the
\* order they had.
C17_ConsumesOldest ==
    [][FetchDone =>
          LET hits == {i \in 1..Len(headef) :
                          headef[i].pte \cap KEY_MASK = last'.pte_in \cap KEY_MASK}
          IN  /\ hits # {}
              /\ \E k \in hits :
                    /\ \A j \in hits : k <= j
                    /\ headef' = SubSeq(headef, 1, k - 1)
                                    \o SubSeq(headef, k + 1, Len(headef))]_vars
\* a fetch has completed that left in the store a younger entry with the
\* key it looked for
C17_Witness ==
    /\ last.op = "fetch" /\ last.outcome = "ok"
    /\ \E i \in 1..Len(headef) :
          headef[i].pte \cap KEY_MASK = last.pte_in \cap KEY_MASK

\* C18 (donation): a nonzero write to FREEPAGE appends to the tail of the pool
\* the frame address decoded from the pte at the address written, the remote
\* flag of that pte playing no part (the frame is that of the pte without the
\* flag), and changes nothing else: not the store, not the queue, not guest
\* memory.
C18_FreePageEffect ==
    [][WriteTo(PFA_INT_FREEPAGE) =>
          LET pte == dram_pte[gpaddr_to_hostaddr(last'.value)]
              frame == {b + 2 : b \in (pte \ PTE_REMOTE) \cap (10..61)}
          IN  /\ headff' = headff \o <<[gptr |-> frame]>>
              /\ UNCHANGED <<headef, headnf, dram_pte, dram_page>>]_vars
\* the frame of a pte that has the remote flag has been donated, to a pool
\* that held a frame already
C18_Witness ==
    /\ last.op = "write" /\ last.addr = PFA_INT_FREEPAGE /\ last.value # Zero
    /\ IsRemote(dram_pte[gpaddr_to_hostaddr(last.value)])
    /\ Len(headff) = 2 /\ headff[2].gptr = F2

\* C19 (accounting): at every moment the store holds as many entries as there
\* were EVICTPAGE writes for a pte without the remote flag, less the fetches
\* completed, and the notification queue as many as there were fetches
\* completed, less the NEWFRAME reads made with the queue non-empty; the
\* three collections are empty after initialization; and a step changes one
\* of them only if it is a FREEPAGE write, an EVICTPAGE write, a fetch or a
\* read of NEWFRAME.
C19_Accounting ==
    /\ [](/\ Len(headef) = evictions - Len(fetched)
          /\ Len(headnf) = Len(fetched) - Len(delivered)
          /\ last.op = "init" => headff = <<>> /\ headef = <<>> /\ headnf = <<>>)
    /\ [][<<headff, headef, headnf>>' # <<headff, headef, headnf>> =>
             \/ WriteTo(PFA_INT_FREEPAGE)
             \/ WriteTo(PFA_INT_EVICTPAGE)
             \/ last'.op = "fetch"
             \/ ReadOf(PFA_INT_NEWFRAME)]_vars
\* three evictions, two fetches and one NEWFRAME read have left one entry in
\* the store and one in the queue
C19_Witness ==
    /\ evictions = 3 /\ Len(fetched) = 2 /\ Len(delivered) = 1
    /\ Len(headef) = 1 /\ Len(headnf) = 1

\* C20 (key uniqueness): no two entries of the store have the same match key,
\* whatever the order of evictions, donations and fetches.
C20_KeyUnique ==
    \A i, j \in 1..Len(headef) :
       i # j => headef[i].pte \cap KEY_MASK # headef[j].pte \cap KEY_MASK

\* C15 (match key), as stated: the keys of two ptes are equal if and only if
\* the ptes agree on every bit other than the ten low-order status bits.
C15_MatchKey ==
    key_eq # "none" =>
       (key_eq = "equal" <=> key_a \ (0..9) = key_b \ (0..9))
\* C15 (match key), amended: the keys of two ptes are equal if and only if
\* the ptes agree on bits 10 to 47; the ten low-order bits and bits 48 to 63
\* play no part.  Two ptes that differ only in low-order status bits match;
\* two ptes that differ in a bit of the page number within bits 10 to 47, or
\* in the remote flag, do not.
C15_KeyAmended ==
    key_eq # "none" =>
       /\ key_eq = "equal" <=> (\A b \in 10..47 : b \in key_a <=> b \in key_b)
       /\ key_a \ (0..9) = key_b \ (0..9) => key_eq = "equal"
       /\ IsRemote(key_a) # IsRemote(key_b) => key_eq = "differ"
\* two ptes that differ in a status bit and in bits 48 and 63, and in no
\* other bit, have been compared and found equal
C15_Witness ==
    /\ key_eq = "equal"
    /\ (key_a \ key_b) \cup (key_b \ key_a) = {3, 48, 63}

\* the contexts that have unlinked a frame from the pool
Took == {c \in Ctx : loc[c].ff # 0 /\ pc[c] # "unlink_ff"}

\* C16 (serialization): when every call of rpfh_fetch_page runs to its end
\* before another is entered, no two calls take the same free frame or the
\* same evicted entry, a frame a call has taken is in the pool no more, and
\* the frames in the pool and the frames taken are as many as the frames
\* donated.  (That fetches interleaved statement by statement do reach a
\* state where this fails is what the witness shows.)
C16_SerializedSafe ==
    serialized =>
       /\ \A c, d \in Ctx :
             c # d => /\ loc[c].ff # 0 => loc[c].ff # loc[d].ff
                      /\ loc[c].ef # 0 => loc[c].ef # loc[d].ef
       /\ \A c \in Took : Linked(ffid, loc[c].ff) = 0
       /\ Len(headff) + Cardinality(Took) = Len(donated)
\* two fetches that ran interleaved have both returned, with the same free
\* frame and the same evicted entry: two frames returned, one donated
C16_Witness ==
    /\ ~serialized
    /\ pc[1] = "done" /\ pc[2] = "done"
    /\ loc[1].ff = loc[2].ff /\ loc[1].ef = loc[2].ef
    /\ Len(returned) = 2 /\ Len(donated) = 1

\* C21 (layout of the fetched pte): the pte a fetch produces is the page
\* number of the frame it took, (frame >> 12) << 10, together with bits 0 to
\* 7 of the pte of the evicted entry it used; bits 8 and 9 of it are 0; and
\* it holds nothing of the faulting pte passed in: it is the same whatever
\* the low bits of that pte are.
C21_FetchedLayout ==
    [][FetchDone =>
          LET hits == {i \in 1..Len(headef) :
                          headef[i].pte \cap KEY_MASK = last'.pte_in \cap KEY_MASK}
              evicted == headef[CHOOSE k \in hits : \A j \in hits : k <= j].pte
              frame == headff[1].gptr
          IN  /\ last'.ret = {b - 2 : b \in frame \cap (12..63)}
                                \cup (evicted \cap (0..7))
              /\ last'.ret \cap {8, 9} = {}]_vars
\* a fetch has completed for an evicted pte with bit 8 set and a frame other
\* than frame 0, on a faulting pte whose low bits were not those of the
\* evicted one and are not those of the pte produced
C21_Witness ==
    /\ last.op = "fetch" /\ last.outcome = "ok"
    /\ last.paddr = F1
    /\ last.pte_in \cap (0..9) = {0, 6, 7}
    /\ last.ret = MkPte(F1, {0, 2})

====
